---- MODULE Spec2Model ----
(***************************************************************************)
(* State-machine model of the posix1e extension module (src/acl.c): the    *)
(* ACL, Entry and Permset Python types wrapping the POSIX.1e ACL library.  *)
(*                                                                         *)
(* The Python heap is modelled by three tables of object slots (acls,      *)
(* entries, permsets) whose fields carry the names of the C struct fields. *)
(* The ACL library's working storage is modelled by `backend`: handles     *)
(* (acl_t), their entry lists, their traversal position and the entry      *)
(* records (acl_entry_t) with tag, qualifier and permission bits.          *)
(* Each handler modelled is one action.  A call into the library is a      *)
(* pure operator on the backend value, so that a handler's calls compose   *)
(* in the order the C code makes them.                                     *)
(***************************************************************************)
EXTENDS Integers, Sequences, FiniteSets, TLC

(* ------------------------------ bounds -------------------------------- *)
NumACL == 2
NumEntry == 2
NumPermset == 2
MaxHandles == 4
MaxRecords == 12
MaxRefs == 2
MaxSteps == 5

ACLIds == 1..NumACL
EntryIds == 1..NumEntry
PermsetIds == 1..NumPermset
HandleIds == 1..MaxHandles
RecIds == 1..MaxRecords

(* ------------------- constants of <sys/acl.h> ------------------------- *)
ACL_UNDEFINED_TAG == 0
ACL_USER_OBJ == 1
ACL_USER == 2
ACL_GROUP_OBJ == 4
ACL_GROUP == 8
ACL_MASK == 16
ACL_OTHER == 32
ACL_READ == 4
ACL_WRITE == 2
ACL_EXECUTE == 1
ACL_FIRST_ENTRY == 0
ACL_NEXT_ENTRY == 1
ACL_UNDEFINED_ID == -1
\* width in bits of acl_tag_t, to which the C long of a Python int is cast.
\* The type is an int of 32 bits and the long has 64; the model keeps the
\* narrowing at a width its integers can express.
TagBits == 16

DefinedTags == {ACL_USER_OBJ, ACL_USER, ACL_GROUP_OBJ, ACL_GROUP, ACL_MASK, ACL_OTHER}
KnownTags == DefinedTags \cup {ACL_UNDEFINED_TAG}
Rights == {ACL_READ, ACL_WRITE, ACL_EXECUTE}
NULL == 0

(* Python exception types raised by the module, and the error kinds they   *)
(* stand for: ValueError/TypeError = InvalidArgument, IOError =            *)
(* BackendError, AttributeError = UninitializedState.                      *)
InvalidArgument == {"ValueError", "TypeError"}
BackendError == {"IOError"}
UninitializedState == {"AttributeError"}

VARIABLES
    acls,       \* ACL_Object slots: [st, acl, entry_id, refs]
    entries,    \* Entry_Object slots: [st, parent_acl, entry, refs]
    permsets,   \* Permset_Object slots: [st, parent_entry, permset]
    backend,    \* the ACL library's storage: [hs, ents, pos, own, rec]
    err,        \* the interpreter's error indicator (exception in flight)
    ret,        \* the last call made and what it returned (observation)
    trav,       \* per ACL: what the traversal begun by the last iter() yielded
    buf,        \* the byte string the caller holds from the last __getstate__
    steps       \* number of calls the exploration may still make

vars == <<acls, entries, permsets, backend, err, ret, trav, buf, steps>>

(* ------------------------- blank values -------------------------------- *)
NoACL == [st |-> "absent", acl |-> NULL, entry_id |-> ACL_FIRST_ENTRY, refs |-> 0]
NoEntry == [st |-> "absent", parent_acl |-> NULL, entry |-> NULL, refs |-> 0]
NoPermset == [st |-> "absent", parent_entry |-> NULL, permset |-> NULL]
NoRec == [h |-> 0, tag |-> ACL_UNDEFINED_TAG, qual |-> ACL_UNDEFINED_ID, perm |-> {}]
NoTrav == [on |-> FALSE, log |-> <<>>, done |-> FALSE, clean |-> FALSE, cut |-> 0,
           prev |-> <<>>, hasPrev |-> FALSE]
\* the traversal of a new ACL: ACL_new leaves the cursor at the first entry
FirstTrav == [NoTrav EXCEPT !.on = TRUE, !.clean = TRUE]
NoBuf == [has |-> FALSE, bytes |-> <<>>, text |-> <<>>, valid |-> FALSE]

EmptyBackend ==
    [hs |-> [h \in HandleIds |-> "unused"],
     ents |-> [h \in HandleIds |-> <<>>],
     pos |-> [h \in HandleIds |-> 0],
     own |-> [h \in HandleIds |-> 0],
     rec |-> [r \in RecIds |-> NoRec]]

(* --------------------- the ACL library (backend) ----------------------- *)
\* an entry's data, without its identity
Data(t, q, p) == [tag |-> t, qual |-> q, perm |-> p]

Live(b, h) == h # NULL /\ b.hs[h] = "live"

\* the record is an entry of a live handle
RecLive(b, r) ==
    /\ r # NULL
    /\ b.rec[r].h # 0
    /\ Live(b, b.rec[r].h)
    /\ \E i \in 1..Len(b.ents[b.rec[r].h]) : b.ents[b.rec[r].h][i] = r

NumHandles(b) == Cardinality({h \in HandleIds : b.hs[h] # "unused"})
NumRecs(b) == Cardinality({r \in RecIds : b.rec[r].h # 0})

\* the entries of a handle as data, in the backend's order
Content(b, h) ==
    [i \in 1..Len(b.ents[h]) |->
        Data(b.rec[b.ents[h][i]].tag, b.rec[b.ents[h][i]].qual, b.rec[b.ents[h][i]].perm)]

\* room for one more handle holding the given entries
CanAcquire(b, content) ==
    /\ NumHandles(b) < MaxHandles
    /\ NumRecs(b) + Len(content) <= MaxRecords

\* acl_init, acl_get_file, acl_get_fd, acl_from_text, acl_dup, acl_copy_int on
\* success: a new live handle for ACL object a holding `content`
acl_acquire(b, a, content) ==
    LET h == NumHandles(b) + 1
        base == NumRecs(b)
    IN  [b EXCEPT !.hs[h] = "live",
                  !.own[h] = a,
                  !.pos[h] = 0,
                  !.ents[h] = [i \in 1..Len(content) |-> base + i],
                  !.rec = [r \in RecIds |->
                             IF r > base /\ r <= base + Len(content)
                             THEN [h |-> h, tag |-> content[r - base].tag,
                                   qual |-> content[r - base].qual,
                                   perm |-> content[r - base].perm]
                             ELSE b.rec[r]]]

\* the handle acl_acquire hands out
NewHandle(b) == NumHandles(b) + 1

\* acl_free(acl): on success the handle and its records are released; on
\* failure (return -1) nothing is released
acl_free(b, h, ok) ==
    IF ok
    THEN [b EXCEPT !.hs[h] = "released",
                   !.ents[h] = <<>>,
                   !.pos[h] = 0,
                   !.rec = [r \in RecIds |->
                              IF b.rec[r].h = h THEN [NoRec EXCEPT !.h = h]
                              ELSE b.rec[r]]]
    ELSE b

\* position of record r in the entry list of handle h, 0 when it is not there
IndexOf(b, h, r) ==
    IF \E i \in 1..Len(b.ents[h]) : b.ents[h][i] = r
    THEN CHOOSE i \in 1..Len(b.ents[h]) : b.ents[h][i] = r
    ELSE 0

\* a sequence without its i-th element
RemoveAt(s, i) == [j \in 1..(Len(s) - 1) |-> IF j < i THEN s[j] ELSE s[j + 1]]

\* acl_get_entry(acl, entry_id, &entry): 1 and the entry, 0 when no entry is
\* left, -1 on an invalid handle.  ACL_FIRST_ENTRY rewinds the handle's
\* position, ACL_NEXT_ENTRY continues after it.
acl_get_entry(b, h, entry_id) ==
    IF ~Live(b, h)
    THEN [rc |-> -1, e |-> NULL, b |-> b]
    ELSE LET from == IF entry_id = ACL_FIRST_ENTRY THEN 0 ELSE b.pos[h]
         IN  IF from < Len(b.ents[h])
             THEN [rc |-> 1, e |-> b.ents[h][from + 1],
                   b |-> [b EXCEPT !.pos[h] = from + 1]]
             ELSE [rc |-> 0, e |-> NULL,
                   b |-> [b EXCEPT !.pos[h] = Len(b.ents[h])]]

\* acl_create_entry(&acl, &entry): appends a record with undefined tag, no
\* qualifier and no permission; -1 on an invalid handle
acl_create_entry(b, h) ==
    IF ~Live(b, h)
    THEN [rc |-> -1, e |-> NULL, b |-> b]
    ELSE LET r == NumRecs(b) + 1
         IN  [rc |-> 0, e |-> r,
              b |-> [b EXCEPT !.ents[h] = Append(b.ents[h], r),
                              !.rec[r] = [NoRec EXCEPT !.h = h]]]

\* removal of record r from its handle g, the position following the records
\* before it
Unlink(b, g, r) ==
    LET i == IndexOf(b, g, r)
    IN  [b EXCEPT !.ents[g] = RemoveAt(b.ents[g], i),
                  !.pos[g] = IF i <= b.pos[g] THEN b.pos[g] - 1 ELSE b.pos[g],
                  !.rec[r] = [NoRec EXCEPT !.h = g]]

\* acl_delete_entry(acl, entry).  For a record that is not an entry of acl
\* the library's behaviour is not defined by the interface: `lib` chooses
\* between rejecting the call (-1, EINVAL) and unlinking the record from
\* whatever list holds it.
acl_delete_entry(b, h, r, lib) ==
    IF ~Live(b, h) \/ r = NULL
    THEN [rc |-> -1, b |-> b]
    ELSE IF IndexOf(b, h, r) # 0
    THEN [rc |-> 0, b |-> Unlink(b, h, r)]
    ELSE IF lib
    THEN [rc |-> -1, b |-> b]
    ELSE IF RecLive(b, r)
    THEN [rc |-> 0, b |-> Unlink(b, b.rec[r].h, r)]
    ELSE [rc |-> 0, b |-> b]

\* acl_set_tag_type(entry, tag): -1 (EINVAL) for a tag that is no tag type.
\* Whether ACL_UNDEFINED_TAG may be set, and what a call on a record that is
\* no longer an entry of a live handle does, is the library's choice `lib`.
acl_set_tag_type(b, r, t, lib) ==
    IF r = NULL \/ t \notin KnownTags
    THEN [rc |-> -1, b |-> b]
    ELSE IF ~RecLive(b, r)
    THEN [rc |-> IF lib THEN -1 ELSE 0, b |-> b]
    ELSE IF t = ACL_UNDEFINED_TAG /\ lib
    THEN [rc |-> -1, b |-> b]
    ELSE [rc |-> 0, b |-> [b EXCEPT !.rec[r].tag = t]]

\* acl_set_qualifier(entry, &id).  On an entry whose tag is neither ACL_USER
\* nor ACL_GROUP the qualifier has no meaning; the library (`lib`) rejects
\* the call or stores the id.
acl_set_qualifier(b, r, q, lib) ==
    IF r = NULL
    THEN [rc |-> -1, b |-> b]
    ELSE IF ~RecLive(b, r)
    THEN [rc |-> IF lib THEN -1 ELSE 0, b |-> b]
    ELSE IF b.rec[r].tag \notin {ACL_USER, ACL_GROUP} /\ lib
    THEN [rc |-> -1, b |-> b]
    ELSE [rc |-> 0, b |-> [b EXCEPT !.rec[r].qual = q]]

\* acl_get_tag_type(entry, &tag): -1 without a record; what a record that is
\* gone gives is the library's choice
acl_get_tag_type(b, r, lib) ==
    IF r = NULL THEN [rc |-> -1, tag |-> ACL_UNDEFINED_TAG]
    ELSE IF ~RecLive(b, r) THEN [rc |-> IF lib THEN -1 ELSE 0, tag |-> b.rec[r].tag]
    ELSE [rc |-> 0, tag |-> b.rec[r].tag]

\* acl_get_qualifier(entry): a buffer holding the id (ok), or NULL without a
\* record or on an entry whose tag is neither ACL_USER nor ACL_GROUP
acl_get_qualifier(b, r, lib) ==
    IF r = NULL THEN [ok |-> FALSE, qual |-> ACL_UNDEFINED_ID]
    ELSE IF ~RecLive(b, r) THEN [ok |-> ~lib, qual |-> b.rec[r].qual]
    ELSE IF b.rec[r].tag \notin {ACL_USER, ACL_GROUP}
    THEN [ok |-> FALSE, qual |-> ACL_UNDEFINED_ID]
    ELSE [ok |-> TRUE, qual |-> b.rec[r].qual]

\* acl_set_permset(entry, permset): the entry's bits become those referred to
acl_set_permset(b, r, ps, lib) ==
    IF r = NULL \/ ps = NULL
    THEN [rc |-> -1, b |-> b]
    ELSE IF ~RecLive(b, r) \/ ~RecLive(b, ps)
    THEN [rc |-> IF lib THEN -1 ELSE 0, b |-> b]
    ELSE [rc |-> 0, b |-> [b EXCEPT !.rec[r].perm = b.rec[ps].perm]]

\* acl_copy_entry(dest, src): tag, qualifier and bits of src go to dest
acl_copy_entry(b, dest, src, lib) ==
    IF dest = NULL \/ src = NULL
    THEN [rc |-> -1, b |-> b]
    ELSE IF ~RecLive(b, dest) \/ ~RecLive(b, src)
    THEN [rc |-> IF lib THEN -1 ELSE 0, b |-> b]
    ELSE [rc |-> 0, b |-> [b EXCEPT !.rec[dest].tag = b.rec[src].tag,
                                    !.rec[dest].qual = b.rec[src].qual,
                                    !.rec[dest].perm = b.rec[src].perm]]

\* acl_get_permset(entry, &permset): the permset descriptor refers to the
\* permission bits of the record itself
acl_get_permset(b, r) ==
    IF r = NULL THEN [rc |-> -1, ps |-> NULL] ELSE [rc |-> 0, ps |-> r]

\* acl_add_perm / acl_delete_perm / acl_clear_perms on a permset descriptor
acl_add_perm(b, ps, right, lib) ==
    IF ps = NULL
    THEN [rc |-> -1, b |-> b]
    ELSE IF ~RecLive(b, ps)
    THEN [rc |-> IF lib THEN -1 ELSE 0, b |-> b]
    ELSE [rc |-> 0, b |-> [b EXCEPT !.rec[ps].perm = @ \cup {right}]]

acl_delete_perm(b, ps, right, lib) ==
    IF ps = NULL
    THEN [rc |-> -1, b |-> b]
    ELSE IF ~RecLive(b, ps)
    THEN [rc |-> IF lib THEN -1 ELSE 0, b |-> b]
    ELSE [rc |-> 0, b |-> [b EXCEPT !.rec[ps].perm = @ \ {right}]]

acl_clear_perms(b, ps, lib) ==
    IF ps = NULL
    THEN [rc |-> -1, b |-> b]
    ELSE IF ~RecLive(b, ps)
    THEN [rc |-> IF lib THEN -1 ELSE 0, b |-> b]
    ELSE [rc |-> 0, b |-> [b EXCEPT !.rec[ps].perm = {}]]

\* get_perm(permset, right): 1 or 0 as the bit is set or not in the bits
\* referred to, -1 without a descriptor; what a descriptor of a record that is
\* gone gives is the library's choice
get_perm(b, ps, right, lib) ==
    IF ps = NULL THEN -1
    ELSE IF ~RecLive(b, ps) THEN (IF lib THEN 1 ELSE 0)
    ELSE IF right \in b.rec[ps].perm THEN 1 ELSE 0

\* number of entries of `content` whose tag is t
CountTag(content, t) == Cardinality({i \in 1..Len(content) : content[i].tag = t})

\* no two entries of tag t carry the same qualifier
UniqueQualifiers(content, t) ==
    \A i, j \in 1..Len(content) :
        (i # j /\ content[i].tag = t /\ content[j].tag = t)
            => content[i].qual # content[j].qual

\* the rules the documentation of valid() states
ValidRules(content) ==
    /\ CountTag(content, ACL_USER_OBJ) = 1
    /\ CountTag(content, ACL_GROUP_OBJ) = 1
    /\ CountTag(content, ACL_OTHER) = 1
    /\ (CountTag(content, ACL_USER) + CountTag(content, ACL_GROUP) > 0
            => CountTag(content, ACL_MASK) = 1)
    /\ CountTag(content, ACL_MASK) <= 1
    /\ UniqueQualifiers(content, ACL_USER)
    /\ UniqueQualifiers(content, ACL_GROUP)

\* the entries the documentation of valid() speaks about: one of the six tag
\* types, and a user or group id on every ACL_USER and ACL_GROUP entry
Documented(content) ==
    \A i \in 1..Len(content) :
        /\ content[i].tag \in DefinedTags
        /\ content[i].tag \in {ACL_USER, ACL_GROUP} => content[i].qual # ACL_UNDEFINED_ID

\* acl_valid(acl): 0 for a valid ACL, -1 otherwise.  For an entry list the
\* documented rules do not exclude but that holds entries they do not speak
\* about (undefined tag, user or group entry without id) the answer is the
\* library's (`lib`).
acl_valid(b, h, lib) ==
    IF ~Live(b, h) THEN -1
    ELSE IF ~ValidRules(Content(b, h)) THEN -1
    ELSE IF Documented(Content(b, h)) THEN 0
    ELSE IF lib THEN -1 ELSE 0

\* the three characters of a permission set
PermStr(perm) ==
    <<IF ACL_READ \in perm THEN "r" ELSE "-",
      IF ACL_WRITE \in perm THEN "w" ELSE "-",
      IF ACL_EXECUTE \in perm THEN "x" ELSE "-">>

TagName(t) ==
    CASE t \in {ACL_USER_OBJ, ACL_USER} -> "user"
      [] t \in {ACL_GROUP_OBJ, ACL_GROUP} -> "group"
      [] t = ACL_MASK -> "mask"
      [] t = ACL_OTHER -> "other"
      [] OTHER -> "?"

\* one line of text: kind, qualifier (only for ACL_USER and ACL_GROUP), rwx
TextLine(d) ==
    <<TagName(d.tag),
      IF d.tag \in {ACL_USER, ACL_GROUP} THEN d.qual ELSE ACL_UNDEFINED_ID,
      PermStr(d.perm)>>

\* acl_to_text(acl, NULL): NULL (ok = FALSE) on an invalid handle or an
\* entry that has no text form, otherwise one line per entry
acl_to_text(b, h) ==
    IF ~Live(b, h) THEN [ok |-> FALSE, text |-> <<>>]
    ELSE LET c == Content(b, h)
         IN  IF \E i \in 1..Len(c) : c[i].tag \notin DefinedTags
             THEN [ok |-> FALSE, text |-> <<>>]
             ELSE [ok |-> TRUE, text |-> [i \in 1..Len(c) |-> TextLine(c[i])]]

\* the permission bits as the integer the external form stores
PermBits(perm) ==
    (IF ACL_READ \in perm THEN ACL_READ ELSE 0)
    + (IF ACL_WRITE \in perm THEN ACL_WRITE ELSE 0)
    + (IF ACL_EXECUTE \in perm THEN ACL_EXECUTE ELSE 0)

BitsPerm(n) == {r \in Rights : (n \div r) % 2 = 1}

\* acl_size / acl_copy_ext(buf, acl, size): the external form, one
\* <<tag, bits, id>> per entry; -1 (ok = FALSE) on an invalid handle
acl_copy_ext(b, h) ==
    IF ~Live(b, h) THEN [ok |-> FALSE, body |-> <<>>]
    ELSE LET c == Content(b, h)
         IN  [ok |-> TRUE,
              body |-> [i \in 1..Len(c) |-> <<c[i].tag, PermBits(c[i].perm), c[i].qual>>]]

\* the entries acl_copy_int(buf) rebuilds from an external form
acl_copy_int(bytes) ==
    [i \in 1..Len(bytes.body) |->
        Data(bytes.body[i][1], bytes.body[i][3], BitsPerm(bytes.body[i][2]))]

\* a byte string that is no external form of an ACL
Garbage == [ok |-> FALSE, body |-> <<>>]

(* ------------- what the file system and the parser hand out ------------ *)
Plain(t, perm) == Data(t, ACL_UNDEFINED_ID, perm)
TemplateMinimal ==
    <<Plain(ACL_USER_OBJ, {ACL_READ, ACL_WRITE, ACL_EXECUTE}),
      Plain(ACL_GROUP_OBJ, {ACL_READ, ACL_EXECUTE}),
      Plain(ACL_OTHER, {ACL_READ})>>
TemplateNoMask ==
    <<Plain(ACL_USER_OBJ, {ACL_READ, ACL_WRITE}),
      Data(ACL_USER, 1, {ACL_READ}),
      Plain(ACL_GROUP_OBJ, {ACL_READ}),
      Plain(ACL_OTHER, {})>>
TemplateMask ==
    <<Plain(ACL_USER_OBJ, {ACL_READ, ACL_WRITE}),
      Data(ACL_USER, 1, {ACL_READ, ACL_WRITE}),
      Plain(ACL_GROUP_OBJ, {ACL_READ}),
      Plain(ACL_MASK, {ACL_READ}),
      Plain(ACL_OTHER, {})>>
Templates == {TemplateMinimal, TemplateNoMask, TemplateMask}

Sources == {"file", "fd", "text", "acl", "filedef"}

(* --------------------------- the Python heap --------------------------- *)
Alive(tbl, i) == i # NULL /\ tbl[i].st = "alive"

\* the Entry objects holding a reference to ACL a, the Permset objects
\* holding a reference to Entry e
ChildrenE(a) == {e \in EntryIds : Alive(entries, e) /\ entries[e].parent_acl = a}
ChildrenP(e) == {p \in PermsetIds : Alive(permsets, p) /\ permsets[p].parent_entry = e}

\* live handles acquired for ACL object a
LiveOwned(b, a) == {h \in HandleIds : Live(b, h) /\ b.own[h] = a}

Max2(x, y) == IF x >= y THEN x ELSE y

\* a call may be made: the interpreter makes no call with an error in flight
CanCall == steps > 0 /\ err = "none"

Call(r, exc) ==
    /\ ret' = r
    /\ err' = exc
    /\ steps' = steps - 1

\* a traversal log is kept only while nothing changes the ACL's entry list
Touch(H) == [a \in ACLIds |-> IF acls[a].acl \in H THEN NoTrav ELSE trav[a]]

\* the slot a newly allocated object takes
FreeSlot(tbl, ids) == CHOOSE i \in ids : tbl[i].st = "absent" /\ \A j \in ids : j < i => tbl[j].st # "absent"
HasFreeSlot(tbl, ids) == \E i \in ids : tbl[i].st = "absent"

Init ==
    /\ acls = [a \in ACLIds |-> NoACL]
    /\ entries = [e \in EntryIds |-> NoEntry]
    /\ permsets = [p \in PermsetIds |-> NoPermset]
    /\ backend = EmptyBackend
    /\ err = "none"
    /\ ret = [op |-> "start"]
    /\ trav = [a \in ACLIds |-> NoTrav]
    /\ buf = NoBuf
    /\ steps = MaxSteps

(* ------------------------------- ACL ----------------------------------- *)
\* ACL_new: a new object with no handle and the cursor at the first entry
ACL_new(a) ==
    /\ CanCall
    /\ HasFreeSlot(acls, ACLIds)
    /\ a = FreeSlot(acls, ACLIds)
    /\ acls' = [acls EXCEPT ![a] = [st |-> "alive", acl |-> NULL,
                                    entry_id |-> ACL_FIRST_ENTRY, refs |-> 1]]
    /\ Call([op |-> "ACL_new", self |-> a], "none")
    /\ UNCHANGED <<entries, permsets, backend, trav, buf>>

\* ACL_init's argument check: no positional argument, at most one keyword
InitArgsBad_Two(kws) == Cardinality(kws) > 2
InitArgsBad(kws) == Cardinality(kws) > 1

\* the handle the chosen source yields in ACL_init, as [ok, content]: the
\* file system or the parser (`envok`, `tmpl`), acl_dup of the source ACL's
\* handle, or acl_init(0).  b is the backend after the old handle was freed;
\* acl_dup of a handle freed just before (acl=self) reads freed storage and
\* fails or still finds the old entries (`lib`).
InitSource(b, kws, src, tmpl, envok, lib) ==
    IF kws = {"acl"}
    THEN LET sh == acls[src].acl
         IN  IF sh = NULL THEN [ok |-> FALSE, content |-> <<>>]
             ELSE IF Live(b, sh) THEN [ok |-> TRUE, content |-> Content(b, sh)]
             ELSE IF lib THEN [ok |-> FALSE, content |-> <<>>]
             ELSE [ok |-> TRUE, content |-> Content(backend, sh)]
    ELSE IF kws = {}
    THEN [ok |-> envok, content |-> <<>>]
    ELSE [ok |-> envok, content |-> tmpl]

\* ACL_init frees the old handle before acquiring (its result is not looked at)
InitFreeOld(b, old, freeOk) == IF old # NULL THEN acl_free(b, old, freeOk) ELSE b

ACL_init(a, kws, src, tmpl, envok, freeOk, lib) ==
    /\ CanCall
    /\ Alive(acls, a)
    /\ Alive(acls, src)
    /\ IF InitArgsBad(kws)
       THEN /\ Call([op |-> "ACL_init", self |-> a, nsrc |-> Cardinality(kws),
                     old |-> acls[a].acl, new |-> NULL, peak |-> Cardinality(LiveOwned(backend, a)),
                     freeFailed |-> FALSE], "ValueError")
            /\ UNCHANGED <<acls, entries, permsets, backend, trav, buf>>
       ELSE LET old == acls[a].acl
                b1 == InitFreeOld(backend, old, freeOk)
                got == InitSource(b1, kws, src, tmpl, envok, lib)
                b2 == IF got.ok THEN acl_acquire(b1, a, got.content) ELSE b1
                new == IF got.ok THEN NewHandle(b1) ELSE NULL
            IN  /\ got.ok => CanAcquire(b1, got.content)
                /\ backend' = b2
                /\ acls' = [acls EXCEPT ![a].acl = new]
                /\ trav' = [trav EXCEPT ![a] = NoTrav]
                /\ Call([op |-> "ACL_init", self |-> a, nsrc |-> Cardinality(kws),
                         old |-> old, new |-> new,
                         peak |-> Max2(Cardinality(LiveOwned(backend, a)),
                                       Max2(Cardinality(LiveOwned(b1, a)),
                                            Cardinality(LiveOwned(b2, a)))),
                         freeFailed |-> (old # NULL /\ ~freeOk)],
                        IF new = NULL THEN "IOError" ELSE "none")
                /\ UNCHANGED <<entries, permsets, buf>>

\* the error indicator after ACL_dealloc: an error in flight is fetched
\* before the handle is freed and restored afterwards; PyErr_WriteUnraisable
\* after a failed acl_free leaves the indicator clear
ACL_dealloc_err_NoFetch(e, freeFailed) == IF freeFailed THEN "none" ELSE e
ACL_dealloc_err(e, freeFailed) ==
    LET have_error == e # "none"
        fetched == e
        inside == "none"
    IN  IF have_error THEN fetched ELSE inside

\* Entry_dealloc / Permset_dealloc: fetch, drop the parent reference (which
\* may run the parent's dealloc with a clear indicator), restore
View_dealloc_err(e, parentDies, freeFailed) ==
    LET have_error == e # "none"
        fetched == e
        inside == IF parentDies THEN ACL_dealloc_err("none", freeFailed) ELSE "none"
    IN  IF have_error THEN fetched ELSE inside

\* ACL_dealloc on the backend: the handle, if any, is freed
ACL_dealloc_backend(b, a, freeOk) ==
    LET h == acls[a].acl
    IN  IF h = NULL THEN b
        ELSE [acl_free(b, h, freeOk) EXCEPT !.own[h] = 0]

\* objects P, E, A (at most one each) reach reference count zero and are
\* deallocated; acls0 and entries0 are the tables after the decrement
Destroy(P, E, A, acls0, entries0, freeOk, kind, self) ==
    LET freeFailed == \E a \in A : acls[a].acl # NULL /\ ~freeOk
    IN  /\ permsets' = [p \in PermsetIds |-> IF p \in P THEN NoPermset ELSE permsets[p]]
        /\ entries' = [e \in EntryIds |-> IF e \in E THEN NoEntry ELSE entries0[e]]
        /\ acls' = [a \in ACLIds |-> IF a \in A THEN NoACL ELSE acls0[a]]
        /\ backend' = IF A = {} THEN backend
                      ELSE ACL_dealloc_backend(backend, CHOOSE a \in A : TRUE, freeOk)
        /\ trav' = [a \in ACLIds |-> IF a \in A THEN NoTrav ELSE trav[a]]
        /\ err' = IF kind = "ACL"
                  THEN (IF A = {} THEN err ELSE ACL_dealloc_err(err, freeFailed))
                  ELSE (IF P \cup E = {} THEN err
                        ELSE View_dealloc_err(err, A # {}, freeFailed))
        /\ ret' = [op |-> "drop", kind |-> kind, self |-> self,
                   dead |-> <<P, E, A>>, freeFailed |-> freeFailed, had |-> err]
        /\ steps' = steps - 1
        /\ UNCHANGED buf

\* Py_DECREF reaches zero: the caller's own references are gone (`own`) and
\* no view holds the reference it took on the object (`views`)
Unreferenced_OwnOnly(own, views) == own = 0
Unreferenced(own, views) == own = 0 /\ views = {}

\* the caller gives up a reference to ACL a (Py_DECREF); ACL_dealloc runs
\* when it was the last one
DropACL(a, freeOk) ==
    /\ steps > 0
    /\ Alive(acls, a)
    /\ acls[a].refs > 0
    /\ LET dies == Unreferenced(acls[a].refs - 1, ChildrenE(a))
       IN  Destroy({}, {}, IF dies THEN {a} ELSE {},
                   [acls EXCEPT ![a].refs = @ - 1], entries, freeOk, "ACL", a)

\* the caller gives up its reference to Entry e; Entry_dealloc runs unless a
\* Permset still refers to it, and drops the reference to the parent ACL
DropEntry(e, freeOk) ==
    /\ steps > 0
    /\ Alive(entries, e)
    /\ entries[e].refs > 0
    /\ LET eDies == Unreferenced(entries[e].refs - 1, ChildrenP(e))
           pa == entries[e].parent_acl
           aDies == eDies /\ pa # NULL /\ Unreferenced(acls[pa].refs, ChildrenE(pa) \ {e})
       IN  Destroy({}, IF eDies THEN {e} ELSE {}, IF aDies THEN {pa} ELSE {},
                   acls, [entries EXCEPT ![e].refs = @ - 1], freeOk, "Entry", e)

\* the caller gives up its reference to Permset p: Permset_dealloc drops the
\* reference to the parent Entry
DropPermset(p, freeOk) ==
    /\ steps > 0
    /\ Alive(permsets, p)
    /\ LET pe == permsets[p].parent_entry
           eDies == pe # NULL /\ Unreferenced(entries[pe].refs, ChildrenP(pe) \ {p})
           pa == IF eDies THEN entries[pe].parent_acl ELSE NULL
           aDies == pa # NULL /\ Unreferenced(acls[pa].refs, ChildrenE(pa) \ {pe})
       IN  Destroy({p}, IF eDies THEN {pe} ELSE {}, IF aDies THEN {pa} ELSE {},
                   acls, entries, freeOk, "Permset", p)

\* the caller handles the exception in flight
ClearErr ==
    /\ err \notin {"none", "crash"}
    /\ err' = "none"
    /\ ret' = [op |-> "except", had |-> err]
    /\ UNCHANGED <<acls, entries, permsets, backend, trav, buf, steps>>

\* ACL_str: acl_to_text, then the text buffer is freed (`txtFreeOk`)
ACL_str(a, txtFreeOk) ==
    /\ CanCall
    /\ Alive(acls, a)
    /\ LET t == acl_to_text(backend, acls[a].acl)
       IN  Call([op |-> "ACL_str", self |-> a, val |-> t.text],
                IF ~t.ok \/ ~txtFreeOk THEN "IOError" ELSE "none")
    /\ UNCHANGED <<acls, entries, permsets, backend, trav, buf>>

\* the Python boolean ACL_valid makes of acl_valid's return value
ValidResult_Swapped(rc) == rc = -1
ValidResult(rc) == rc # -1

\* ACL_valid: False when acl_valid returns -1, True otherwise
ACL_valid(a, lib) ==
    /\ CanCall
    /\ Alive(acls, a)
    /\ Call([op |-> "ACL_valid", self |-> a,
             val |-> ValidResult(acl_valid(backend, acls[a].acl, lib))], "none")
    /\ UNCHANGED <<acls, entries, permsets, backend, trav, buf>>

\* ACL_get_state (__getstate__): the external form as a string
ACL_get_state(a) ==
    /\ CanCall
    /\ Alive(acls, a)
    /\ LET x == acl_copy_ext(backend, acls[a].acl)
       IN  /\ Call([op |-> "ACL_get_state", self |-> a], IF x.ok THEN "none" ELSE "IOError")
           /\ buf' = IF x.ok
                     THEN [has |-> TRUE, bytes |-> x,
                           text |-> acl_to_text(backend, acls[a].acl),
                           valid |-> ValidRules(Content(backend, acls[a].acl))
                                     /\ Documented(Content(backend, acls[a].acl))]
                     ELSE buf
    /\ UNCHANGED <<acls, entries, permsets, backend, trav>>

\* what ACL_set_state stores in self->acl: the imported handle once the old
\* one is freed; the old handle stays when freeing it fails
SetStateHandle_Old(old, ptr, freed) == old
SetStateHandle(old, ptr, freed) == IF freed THEN ptr ELSE old

\* ACL_set_state (__setstate__): acl_copy_int first, then the old handle is
\* freed, then self->acl is replaced
ACL_set_state(a, bytes, freeOk) ==
    /\ CanCall
    /\ Alive(acls, a)
    /\ IF ~bytes.ok
       THEN /\ Call([op |-> "ACL_set_state", self |-> a, imported |-> FALSE,
                     old |-> acls[a].acl, new |-> NULL,
                     peak |-> Cardinality(LiveOwned(backend, a)), freeFailed |-> FALSE],
                    "IOError")
            /\ UNCHANGED <<acls, entries, permsets, backend, trav, buf>>
       ELSE LET old == acls[a].acl
                content == acl_copy_int(bytes)
                ptr == NewHandle(backend)
                b1 == acl_acquire(backend, a, content)
                freed == old = NULL \/ freeOk
                b2 == IF old # NULL THEN acl_free(b1, old, freeOk) ELSE b1
            IN  /\ CanAcquire(backend, content)
                /\ backend' = b2
                /\ acls' = [acls EXCEPT ![a].acl = SetStateHandle(old, ptr, freed)]
                /\ trav' = IF freed THEN [trav EXCEPT ![a] = NoTrav] ELSE trav
                /\ Call([op |-> "ACL_set_state", self |-> a, imported |-> TRUE,
                         old |-> old, new |-> ptr,
                         peak |-> Max2(Cardinality(LiveOwned(backend, a)),
                                       Max2(Cardinality(LiveOwned(b1, a)),
                                            Cardinality(LiveOwned(b2, a)))),
                         freeFailed |-> ~freed],
                        IF freed THEN "none" ELSE "IOError")
                /\ UNCHANGED <<entries, permsets, buf>>

\* the cursor ACL_iter sets, and the cursor ACL_iternext leaves
IterCursor_Kept(id) == id
IterCursor(id) == ACL_FIRST_ENTRY
NextCursor_Kept(id) == id
NextCursor(id) == ACL_NEXT_ENTRY

\* ACL_iter: the ACL is its own iterator; the cursor goes back to the first
\* entry and the caller gets a new reference to the object
ACL_iter(a) ==
    /\ CanCall
    /\ Alive(acls, a)
    /\ acls[a].refs < MaxRefs
    /\ acls' = [acls EXCEPT ![a].entry_id = IterCursor(@), ![a].refs = @ + 1]
    /\ trav' = [trav EXCEPT ![a] =
                  [on |-> TRUE, log |-> <<>>, done |-> FALSE, clean |-> TRUE,
                   cut |-> IF trav[a].on /\ ~trav[a].done THEN Len(trav[a].log) ELSE 0,
                   prev |-> IF trav[a].on /\ trav[a].done THEN trav[a].log ELSE <<>>,
                   hasPrev |-> trav[a].on /\ trav[a].done]]
    /\ Call([op |-> "ACL_iter", self |-> a], "none")
    /\ UNCHANGED <<entries, permsets, backend, buf>>

\* the Entry object ACL_iternext builds around the record it got
IterEntry(a, r) == [st |-> "alive", parent_acl |-> a, entry |-> r, refs |-> 1]

\* ACL_iternext: acl_get_entry at the cursor, the cursor becomes
\* ACL_NEXT_ENTRY whatever the outcome; -1 raises IOError, 0 ends the
\* traversal, 1 yields a new Entry holding a reference to the ACL
ACL_iternext(a) ==
    /\ CanCall
    /\ Alive(acls, a)
    /\ LET g == acl_get_entry(backend, acls[a].acl, acls[a].entry_id)
           e == FreeSlot(entries, EntryIds)
       IN  /\ g.rc = 1 => HasFreeSlot(entries, EntryIds)
           /\ backend' = g.b
           /\ acls' = [acls EXCEPT ![a].entry_id = NextCursor(@)]
           /\ entries' = IF g.rc = 1 THEN [entries EXCEPT ![e] = IterEntry(a, g.e)]
                         ELSE entries
           /\ trav' = IF trav[a].on /\ ~trav[a].done
                      THEN (IF g.rc = 1 THEN [trav EXCEPT ![a].log = Append(@, g.e)]
                            ELSE IF g.rc = 0 THEN [trav EXCEPT ![a].done = TRUE]
                            ELSE [trav EXCEPT ![a] = NoTrav])
                      ELSE trav
           /\ Call([op |-> "ACL_iternext", self |-> a, rc |-> g.rc,
                    at |-> acls[a].entry_id,
                    val |-> IF g.rc = 1 THEN e ELSE NULL],
                   IF g.rc = -1 THEN "IOError" ELSE "none")
    /\ UNCHANGED <<permsets, buf>>

\* handles whose entry list differs between two backends
Changed(b1, b2) == {h \in HandleIds : b1.ents[h] # b2.ents[h]}

\* the library call ACL_delentry makes
DeleteCall_Skipped(b, h, r, lib) == [rc |-> 0, b |-> b]
DeleteCall(b, h, r, lib) == acl_delete_entry(b, h, r, lib)

\* ACL_delentry: the argument must be an Entry; its record is handed to
\* acl_delete_entry together with this ACL's handle
ACL_delentry(a, e, lib) ==
    /\ CanCall
    /\ Alive(acls, a)
    /\ Alive(entries, e)
    /\ LET d == DeleteCall(backend, acls[a].acl, entries[e].entry, lib)
       IN  /\ backend' = d.b
           /\ trav' = Touch(Changed(backend, d.b))
           /\ Call([op |-> "ACL_delentry", self |-> a, arg |-> e,
                    rec |-> entries[e].entry, parent |-> entries[e].parent_acl,
                    rc |-> d.rc],
                   IF d.rc = -1 THEN "IOError" ELSE "none")
    /\ UNCHANGED <<acls, entries, permsets, buf>>

(* ------------------------------ Entry ---------------------------------- *)
\* Entry_new: an object with no record and no parent
Entry_new(e) ==
    /\ CanCall
    /\ HasFreeSlot(entries, EntryIds)
    /\ e = FreeSlot(entries, EntryIds)
    /\ entries' = [entries EXCEPT ![e] = [st |-> "alive", parent_acl |-> NULL,
                                          entry |-> NULL, refs |-> 1]]
    /\ Call([op |-> "Entry_new", self |-> e], "none")
    /\ UNCHANGED <<acls, permsets, backend, trav, buf>>

\* Entry_init, run by the constructor call Entry(parent) on the object
\* Entry_new made: acl_create_entry on the parent's handle, then the parent
\* is referenced
Entry_init(e, a) ==
    /\ CanCall
    /\ Alive(entries, e)
    /\ entries[e].entry = NULL /\ entries[e].parent_acl = NULL
    /\ Alive(acls, a)
    /\ LET c == acl_create_entry(backend, acls[a].acl)
       IN  /\ c.rc = 0 => NumRecs(backend) < MaxRecords
           /\ backend' = c.b
           /\ entries' = IF c.rc = 0
                         THEN [entries EXCEPT ![e].entry = c.e, ![e].parent_acl = a]
                         ELSE entries
           /\ trav' = Touch(Changed(backend, c.b))
           /\ Call([op |-> "Entry_init", self |-> e, arg |-> a, rc |-> c.rc],
                   IF c.rc = -1 THEN "IOError" ELSE "none")
    /\ UNCHANGED <<acls, permsets, buf>>

\* (acl_tag_t)PyInt_AsLong(value): a C long narrowed to the width of acl_tag_t
TagCast(v) == v % (2 ^ TagBits)

\* Entry_set_tag_type: TypeError unless the value is an integer; the integer,
\* cast to acl_tag_t, goes to acl_set_tag_type, whose -1 raises IOError
Entry_set_tag_type(e, isInt, v, lib) ==
    /\ CanCall
    /\ Alive(entries, e)
    /\ IF ~isInt
       THEN /\ Call([op |-> "Entry_set_tag_type", self |-> e, isInt |-> FALSE, arg |-> v,
                     rec |-> entries[e].entry], "TypeError")
            /\ UNCHANGED <<backend, trav>>
       ELSE LET s == acl_set_tag_type(backend, entries[e].entry, TagCast(v), lib)
            IN  /\ backend' = s.b
                /\ trav' = IF s.b # backend THEN Touch({backend.rec[entries[e].entry].h})
                           ELSE trav
                /\ Call([op |-> "Entry_set_tag_type", self |-> e, isInt |-> TRUE, arg |-> v,
                         rec |-> entries[e].entry],
                        IF s.rc = -1 THEN "IOError" ELSE "none")
    /\ UNCHANGED <<acls, entries, permsets, buf>>

\* Entry_set_qualifier: the integer goes to acl_set_qualifier
Entry_set_qualifier(e, q, lib) ==
    /\ CanCall
    /\ Alive(entries, e)
    /\ LET s == acl_set_qualifier(backend, entries[e].entry, q, lib)
       IN  /\ backend' = s.b
           /\ trav' = IF s.b # backend THEN Touch({backend.rec[entries[e].entry].h})
                      ELSE trav
           /\ Call([op |-> "Entry_set_qualifier", self |-> e, arg |-> q,
                    rec |-> entries[e].entry],
                   IF s.rc = -1 THEN "IOError" ELSE "none")
    /\ UNCHANGED <<acls, entries, permsets, buf>>

\* the Permset object built around a permset descriptor of Entry e
NewPermset_Unbound(e, ps) == [st |-> "alive", parent_entry |-> e, permset |-> NULL]
NewPermset(e, ps) == [st |-> "alive", parent_entry |-> e, permset |-> ps]

\* Entry_get_permset: a new Permset object on every call, bound by
\* acl_get_permset to the record's bits, holding a reference to the Entry
Entry_get_permset(e) ==
    /\ CanCall
    /\ Alive(entries, e)
    /\ LET g == acl_get_permset(backend, entries[e].entry)
           p == FreeSlot(permsets, PermsetIds)
       IN  /\ g.rc = 0 => HasFreeSlot(permsets, PermsetIds)
           /\ permsets' = IF g.rc = 0 THEN [permsets EXCEPT ![p] = NewPermset(e, g.ps)]
                          ELSE permsets
           /\ Call([op |-> "Entry_get_permset", self |-> e,
                    val |-> IF g.rc = 0 THEN p ELSE NULL],
                   IF g.rc = -1 THEN "IOError" ELSE "none")
    /\ UNCHANGED <<acls, entries, backend, trav, buf>>

\* the guard of the two getters that look at self->entry before the library
HasRecord(r) == r # NULL

\* Entry_get_tag_type: AttributeError without a record, IOError when
\* acl_get_tag_type fails
Entry_get_tag_type(e, lib) ==
    /\ CanCall
    /\ Alive(entries, e)
    /\ LET r == entries[e].entry
           g == acl_get_tag_type(backend, r, lib)
       IN  IF ~HasRecord(r)
           THEN Call([op |-> "Entry_get_tag_type", self |-> e, rec |-> r,
                      called |-> FALSE, val |-> NULL], "AttributeError")
           ELSE Call([op |-> "Entry_get_tag_type", self |-> e, rec |-> r,
                      called |-> TRUE, val |-> g.tag],
                     IF g.rc = -1 THEN "IOError" ELSE "none")
    /\ UNCHANGED <<acls, entries, permsets, backend, trav, buf>>

\* Entry_get_qualifier: AttributeError without a record, IOError when
\* acl_get_qualifier gives NULL; the result of freeing the buffer
\* (`qFreeOk`) is not looked at
Entry_get_qualifier(e, qFreeOk, lib) ==
    /\ CanCall
    /\ Alive(entries, e)
    /\ LET r == entries[e].entry
           g == acl_get_qualifier(backend, r, lib)
       IN  IF ~HasRecord(r)
           THEN Call([op |-> "Entry_get_qualifier", self |-> e, rec |-> r,
                      called |-> FALSE, val |-> NULL, freeFailed |-> FALSE],
                     "AttributeError")
           ELSE Call([op |-> "Entry_get_qualifier", self |-> e, rec |-> r,
                      called |-> TRUE, val |-> g.qual,
                      freeFailed |-> (g.ok /\ ~qFreeOk)],
                     IF ~g.ok THEN "IOError" ELSE "none")
    /\ UNCHANGED <<acls, entries, permsets, backend, trav, buf>>

\* the words Entry_str puts after "ACL entry for"
EntryText(tag, qualifier) ==
    CASE tag = ACL_UNDEFINED_TAG -> <<"undefined type">>
      [] tag = ACL_USER_OBJ -> <<"the owner">>
      [] tag = ACL_GROUP_OBJ -> <<"the group">>
      [] tag = ACL_OTHER -> <<"the others">>
      [] tag = ACL_USER -> <<"user with uid", qualifier>>
      [] tag = ACL_GROUP -> <<"group with gid", qualifier>>
      [] tag = ACL_MASK -> <<"the mask">>
      [] OTHER -> <<"UNKNOWN_TAG_TYPE!">>

\* Entry_str: acl_get_tag_type, then acl_get_qualifier for ACL_USER and
\* ACL_GROUP; self->entry is not looked at first, and the result of freeing
\* the qualifier buffer (`qFreeOk`) is not looked at
Entry_str(e, qFreeOk, lib) ==
    /\ CanCall
    /\ Alive(entries, e)
    /\ LET r == entries[e].entry
           g == acl_get_tag_type(backend, r, lib)
           named == g.rc = 0 /\ g.tag \in {ACL_USER, ACL_GROUP}
           q == acl_get_qualifier(backend, r, lib)
           failed == g.rc = -1 \/ (named /\ ~q.ok)
       IN  Call([op |-> "Entry_str", self |-> e, rec |-> r, called |-> TRUE,
                 val |-> IF failed THEN <<>>
                         ELSE EntryText(g.tag, IF named THEN q.qual ELSE 0),
                 freeFailed |-> (named /\ q.ok /\ ~qFreeOk)],
                IF failed THEN "IOError" ELSE "none")
    /\ UNCHANGED <<acls, entries, permsets, backend, trav, buf>>

\* Entry_get_parent: Py_INCREF of self->parent_acl, which is not looked at
\* first.  On an Entry without a parent the increment writes through a null
\* pointer: the process ends, or (`lib`) the interpreter sees a NULL result
\* with no error set.
Entry_get_parent(e, lib) ==
    /\ CanCall
    /\ Alive(entries, e)
    /\ LET pa == entries[e].parent_acl
       IN  IF pa = NULL
           THEN /\ ret' = [op |-> "Entry_get_parent", self |-> e,
                           rec |-> entries[e].entry, called |-> FALSE, val |-> NULL]
                /\ err' = IF lib THEN "crash" ELSE "SystemError"
                /\ steps' = IF lib THEN 0 ELSE steps - 1
                /\ UNCHANGED acls
           ELSE /\ acls[pa].refs < MaxRefs
                /\ acls' = [acls EXCEPT ![pa].refs = @ + 1]
                /\ Call([op |-> "Entry_get_parent", self |-> e,
                         rec |-> entries[e].entry, called |-> FALSE, val |-> pa],
                        "none")
    /\ UNCHANGED <<entries, permsets, backend, trav, buf>>

\* Entry_set_permset: TypeError unless the value is a Permset; then
\* acl_set_permset with self->entry, which is not looked at first
Entry_set_permset(e, isPermset, p, lib) ==
    /\ CanCall
    /\ Alive(entries, e)
    /\ Alive(permsets, p)
    /\ IF ~isPermset
       THEN /\ Call([op |-> "Entry_set_permset", self |-> e, rec |-> entries[e].entry,
                     called |-> FALSE, arg |-> NULL], "TypeError")
            /\ UNCHANGED backend
       ELSE LET s == acl_set_permset(backend, entries[e].entry, permsets[p].permset, lib)
            IN  /\ backend' = s.b
                /\ Call([op |-> "Entry_set_permset", self |-> e,
                         rec |-> entries[e].entry, called |-> TRUE, arg |-> p],
                        IF s.rc = -1 THEN "IOError" ELSE "none")
    /\ UNCHANGED <<acls, entries, permsets, trav, buf>>

\* Entry_copy: acl_copy_entry from the other Entry's record to self->entry,
\* neither of which is looked at first
Entry_copy(e, other, lib) ==
    /\ CanCall
    /\ Alive(entries, e)
    /\ Alive(entries, other)
    /\ LET s == acl_copy_entry(backend, entries[e].entry, entries[other].entry, lib)
       IN  /\ backend' = s.b
           /\ trav' = IF s.b # backend THEN Touch({backend.rec[entries[e].entry].h})
                      ELSE trav
           /\ Call([op |-> "Entry_copy", self |-> e, rec |-> entries[e].entry,
                    called |-> TRUE, arg |-> other],
                   IF s.rc = -1 THEN "IOError" ELSE "none")
    /\ UNCHANGED <<acls, entries, permsets, buf>>

(* ----------------------------- Permset --------------------------------- *)
\* Permset_new: an object with no descriptor and no parent
Permset_new(p) ==
    /\ CanCall
    /\ HasFreeSlot(permsets, PermsetIds)
    /\ p = FreeSlot(permsets, PermsetIds)
    /\ permsets' = [permsets EXCEPT ![p] = [st |-> "alive", parent_entry |-> NULL,
                                            permset |-> NULL]]
    /\ Call([op |-> "Permset_new", self |-> p], "none")
    /\ UNCHANGED <<acls, entries, backend, trav, buf>>

\* Permset_init, run by the constructor call Permset(parent) on the object
\* Permset_new made
Permset_init(p, e) ==
    /\ CanCall
    /\ Alive(permsets, p)
    /\ permsets[p].permset = NULL /\ permsets[p].parent_entry = NULL
    /\ Alive(entries, e)
    /\ LET g == acl_get_permset(backend, entries[e].entry)
       IN  /\ permsets' = IF g.rc = 0 THEN [permsets EXCEPT ![p] = NewPermset(e, g.ps)]
                          ELSE permsets
           /\ Call([op |-> "Permset_init", self |-> p, arg |-> e],
                   IF g.rc = -1 THEN "IOError" ELSE "none")
    /\ UNCHANGED <<acls, entries, backend, trav, buf>>

\* Permset_clear: acl_clear_perms on the descriptor
Permset_clear(p, lib) ==
    /\ CanCall
    /\ Alive(permsets, p)
    /\ LET c == acl_clear_perms(backend, permsets[p].permset, lib)
       IN  /\ backend' = c.b
           /\ Call([op |-> "Permset_clear", self |-> p],
                   IF c.rc = -1 THEN "IOError" ELSE "none")
    /\ UNCHANGED <<acls, entries, permsets, trav, buf>>

\* Permset_get_right: the getter of read, write and execute; True for every
\* nonzero result of get_perm
Permset_get_right(p, right, lib) ==
    /\ CanCall
    /\ Alive(permsets, p)
    /\ Call([op |-> "Permset_get_right", self |-> p, arg |-> right,
             val |-> get_perm(backend, permsets[p].permset, right, lib) # 0], "none")
    /\ UNCHANGED <<acls, entries, permsets, backend, trav, buf>>

\* the library call Permset_set_right makes for the value `on`
SetRightCall_AlwaysAdd(b, ps, right, on, lib) == acl_add_perm(b, ps, right, lib)
SetRightCall(b, ps, right, on, lib) ==
    IF on # 0 THEN acl_add_perm(b, ps, right, lib)
    ELSE acl_delete_perm(b, ps, right, lib)

\* Permset_set_right: ValueError unless the value is an integer; a nonzero
\* value adds the bit, zero removes it
Permset_set_right(p, right, isInt, on, lib) ==
    /\ CanCall
    /\ Alive(permsets, p)
    /\ IF ~isInt
       THEN /\ Call([op |-> "Permset_set_right", self |-> p, arg |-> right, on |-> on],
                    "ValueError")
            /\ UNCHANGED backend
       ELSE LET s == SetRightCall(backend, permsets[p].permset, right, on, lib)
            IN  /\ backend' = s.b
                /\ Call([op |-> "Permset_set_right", self |-> p, arg |-> right, on |-> on],
                        IF s.rc = -1 THEN "IOError" ELSE "none")
    /\ UNCHANGED <<acls, entries, permsets, trav, buf>>

(* --------------------------- the inputs -------------------------------- *)
MaxQual == 2
QualInputs == 1..MaxQual
\* the tag types, an integer that is no tag type, and an integer wider than
\* acl_tag_t whose low bits are those of ACL_USER_OBJ
TagInputs == KnownTags \cup {ACL_USER_OBJ + ACL_USER, 2 ^ TagBits + ACL_USER_OBJ}
\* the byte strings the caller can pass to __setstate__
ByteInputs == {Garbage} \cup (IF buf.has THEN {buf.bytes} ELSE {})

(* ------------------------- the specification --------------------------- *)
NewACL == \E a \in ACLIds : ACL_new(a)
InitBadArgs ==
    \E a \in ACLIds, kws \in SUBSET Sources :
        Cardinality(kws) > 1 /\ ACL_init(a, kws, a, <<>>, TRUE, TRUE, TRUE)
InitEnv ==
    \E a \in ACLIds, k \in Sources \ {"acl"}, tmpl \in Templates, envok, freeOk \in BOOLEAN :
        ACL_init(a, {k}, a, tmpl, envok, freeOk, TRUE)
InitDup ==
    \E a, src \in ACLIds, freeOk, lib \in BOOLEAN :
        ACL_init(a, {"acl"}, src, <<>>, TRUE, freeOk, lib)
InitEmpty ==
    \E a \in ACLIds, envok, freeOk \in BOOLEAN : ACL_init(a, {}, a, <<>>, envok, freeOk, TRUE)
Str == \E a \in ACLIds, ok \in BOOLEAN : ACL_str(a, ok)
Valid == \E a \in ACLIds, lib \in BOOLEAN : ACL_valid(a, lib)
GetState == \E a \in ACLIds : ACL_get_state(a)
SetState ==
    \E a \in ACLIds, bytes \in ByteInputs, freeOk \in BOOLEAN : ACL_set_state(a, bytes, freeOk)
Iter == \E a \in ACLIds : ACL_iter(a)
IterNext == \E a \in ACLIds : ACL_iternext(a)
DelEntry == \E a \in ACLIds, e \in EntryIds, lib \in BOOLEAN : ACL_delentry(a, e, lib)
NewEntry == \E e \in EntryIds : Entry_new(e)
InitEntry == \E e \in EntryIds, a \in ACLIds : Entry_init(e, a)
SetTag ==
    \E e \in EntryIds, isInt \in BOOLEAN, v \in TagInputs, lib \in BOOLEAN :
        Entry_set_tag_type(e, isInt, v, lib)
SetQual == \E e \in EntryIds, q \in QualInputs, lib \in BOOLEAN : Entry_set_qualifier(e, q, lib)
GetPermset == \E e \in EntryIds : Entry_get_permset(e)
NewPermset_ == \E p \in PermsetIds : Permset_new(p)
InitPermset == \E p \in PermsetIds, e \in EntryIds : Permset_init(p, e)
Clear == \E p \in PermsetIds, lib \in BOOLEAN : Permset_clear(p, lib)
GetRight ==
    \E p \in PermsetIds, right \in Rights, lib \in BOOLEAN : Permset_get_right(p, right, lib)
SetRight ==
    \E p \in PermsetIds, right \in Rights, isInt \in BOOLEAN, on \in {0, 1}, lib \in BOOLEAN :
        Permset_set_right(p, right, isInt, on, lib)
GetTag == \E e \in EntryIds, lib \in BOOLEAN : Entry_get_tag_type(e, lib)
GetQual == \E e \in EntryIds, ok, lib \in BOOLEAN : Entry_get_qualifier(e, ok, lib)
EntryStr == \E e \in EntryIds, ok, lib \in BOOLEAN : Entry_str(e, ok, lib)
GetParent == \E e \in EntryIds, lib \in BOOLEAN : Entry_get_parent(e, lib)
SetPermset ==
    \E e \in EntryIds, p \in PermsetIds, isPermset, lib \in BOOLEAN :
        Entry_set_permset(e, isPermset, p, lib)
CopyFrom == \E e, other \in EntryIds, lib \in BOOLEAN : Entry_copy(e, other, lib)
DropA == \E a \in ACLIds, freeOk \in BOOLEAN : DropACL(a, freeOk)
DropE == \E e \in EntryIds, freeOk \in BOOLEAN : DropEntry(e, freeOk)
DropP == \E p \in PermsetIds, freeOk \in BOOLEAN : DropPermset(p, freeOk)

\* every handler, from an interpreter that holds no object yet
Next ==
    \/ NewACL \/ InitBadArgs \/ InitEnv \/ InitDup \/ InitEmpty
    \/ Str \/ Valid \/ GetState \/ SetState \/ Iter \/ IterNext \/ DelEntry
    \/ NewEntry \/ InitEntry \/ SetTag \/ SetQual \/ GetPermset
    \/ NewPermset_ \/ InitPermset \/ Clear \/ GetRight \/ SetRight
    \/ DropA \/ DropE \/ DropP \/ ClearErr

Spec == Init /\ [][Next]_vars

(* ------------- specifications that start from loaded ACLs -------------- *)
ValidSteps == 5

\* an ACL object the caller holds, built around handle h
Held(h) == [st |-> "alive", acl |-> h, entry_id |-> ACL_FIRST_ENTRY, refs |-> 1]
\* the backend after ACL object 1 was constructed from content t1 (and ACL
\* object 2 from t2)
Loaded1(t1) == acl_acquire(EmptyBackend, 1, t1)
Loaded2(t1, t2) == acl_acquire(Loaded1(t1), 2, t2)

NoViews ==
    /\ entries = [e \in EntryIds |-> NoEntry]
    /\ permsets = [p \in PermsetIds |-> NoPermset]
    /\ err = "none"
    /\ ret = [op |-> "start"]
    /\ trav = [a \in ACLIds |-> NoTrav]
    /\ buf = NoBuf

\* one ACL, constructed from a text or a file or empty
InitValid ==
    /\ \E t \in Templates \cup {<<>>} : backend = Loaded1(t)
    /\ acls = [a \in ACLIds |-> IF a = 1 THEN Held(1) ELSE NoACL]
    /\ NoViews
    /\ steps = ValidSteps

\* entry creation and deletion, tag and qualifier changes, valid()
NextValid ==
    \/ NewEntry \/ InitEntry \/ IterNext \/ DelEntry
    \/ SetTag \/ SetQual \/ Valid \/ DropE \/ ClearErr

SpecValid == InitValid /\ [][NextValid]_vars

IterSteps == 13

\* one ACL, constructed from a text or a file or empty, to be traversed
InitIter ==
    /\ \E t \in Templates \cup {<<>>} : backend = Loaded1(t)
    /\ acls = [a \in ACLIds |-> IF a = 1 THEN Held(1) ELSE NoACL]
    /\ entries = [e \in EntryIds |-> NoEntry]
    /\ permsets = [p \in PermsetIds |-> NoPermset]
    /\ err = "none"
    /\ ret = [op |-> "start"]
    /\ trav = [a \in ACLIds |-> IF a = 1 THEN FirstTrav ELSE NoTrav]
    /\ buf = NoBuf
    /\ steps = IterSteps

\* traversals, the release of what they hand out, and deletions in between
NextIter == Iter \/ IterNext \/ DelEntry \/ DropE

SpecIter == InitIter /\ [][NextIter]_vars

DeleteSteps == 7

\* two ACLs, each constructed from a text or a file
InitDelete ==
    /\ \E t1, t2 \in Templates : backend = Loaded2(t1, t2)
    /\ acls = [a \in ACLIds |-> IF a <= 2 THEN Held(a) ELSE NoACL]
    /\ NoViews
    /\ steps = DeleteSteps

\* traversals and deletions on either ACL, with the entries of either
NextDelete == Iter \/ IterNext \/ DelEntry \/ DropE

SpecDelete == InitDelete /\ [][NextDelete]_vars

PermSteps == 6

\* one ACL, constructed from a text or a file, and the Entry its traversal
\* yielded first
InitPerm ==
    /\ \E t \in Templates : backend = Loaded1(t)
    /\ acls = [a \in ACLIds |->
                  IF a = 1 THEN [Held(1) EXCEPT !.entry_id = NextCursor(ACL_FIRST_ENTRY)]
                  ELSE NoACL]
    /\ entries = [e \in EntryIds |-> IF e = 1 THEN IterEntry(1, 1) ELSE NoEntry]
    /\ permsets = [p \in PermsetIds |-> NoPermset]
    /\ err = "none"
    /\ ret = [op |-> "start"]
    /\ trav = [a \in ACLIds |-> NoTrav]
    /\ buf = NoBuf
    /\ steps = PermSteps

\* Permset views of the entries, by either way, and what is done through them
NextPerm ==
    \/ IterNext \/ GetPermset \/ NewPermset_ \/ InitPermset
    \/ SetRight \/ Clear \/ GetRight \/ DropP \/ ClearErr

SpecPerm == InitPerm /\ [][NextPerm]_vars

StateSteps == 5

\* two ACLs, each constructed from a text or a file or empty
InitState ==
    /\ \E t1, t2 \in Templates \cup {<<>>} : backend = Loaded2(t1, t2)
    /\ acls = [a \in ACLIds |-> IF a <= 2 THEN Held(a) ELSE NoACL]
    /\ NoViews
    /\ steps = StateSteps

\* export, import and text of either ACL, and deletions in between
NextState ==
    \/ GetState \/ SetState \/ Str
    \/ IterNext \/ DelEntry \/ DropE \/ ClearErr

SpecState == InitState /\ [][NextState]_vars

TeardownSteps == 5

\* one ACL constructed from a text or a file, the Entry its traversal yielded
\* first, and a Permset of that Entry
InitTeardown ==
    /\ \E t \in Templates : backend = Loaded1(t)
    /\ acls = [a \in ACLIds |->
                  IF a = 1 THEN [Held(1) EXCEPT !.entry_id = NextCursor(ACL_FIRST_ENTRY)]
                  ELSE NoACL]
    /\ entries = [e \in EntryIds |-> IF e = 1 THEN IterEntry(1, 1) ELSE NoEntry]
    /\ permsets = [p \in PermsetIds |-> IF p = 1 THEN NewPermset(1, 1) ELSE NoPermset]
    /\ err = "none"
    /\ ret = [op |-> "start"]
    /\ trav = [a \in ACLIds |-> NoTrav]
    /\ buf = NoBuf
    /\ steps = TeardownSteps

\* calls that raise, and the release of the objects in any order
NextTeardown ==
    \/ InitBadArgs \/ SetTag \/ SetRight \/ GetPermset
    \/ DropA \/ DropE \/ DropP \/ ClearErr

SpecTeardown == InitTeardown /\ [][NextTeardown]_vars

EntrySteps == 4

\* one ACL, constructed from a text or a file
InitEntryViews ==
    /\ \E t \in Templates : backend = Loaded1(t)
    /\ acls = [a \in ACLIds |-> IF a = 1 THEN Held(1) ELSE NoACL]
    /\ NoViews
    /\ steps = EntrySteps

\* Entry objects, initialised or not, and every accessor of theirs
NextEntryViews ==
    \/ NewEntry \/ InitEntry \/ IterNext
    \/ GetTag \/ GetQual \/ SetTag \/ SetQual \/ EntryStr
    \/ GetParent \/ GetPermset \/ SetPermset \/ CopyFrom
    \/ DropE \/ DropP \/ ClearErr

SpecEntry == InitEntryViews /\ [][NextEntryViews]_vars

HoldSteps == 6

\* one ACL, constructed from a text or a file
InitHold ==
    /\ \E t \in Templates : backend = Loaded1(t)
    /\ acls = [a \in ACLIds |-> IF a = 1 THEN Held(1) ELSE NoACL]
    /\ NoViews
    /\ steps = HoldSteps

\* views made in each way, other references to the ACL, and their release in
\* any order
NextHold ==
    \/ NewEntry \/ InitEntry \/ IterNext \/ Iter \/ GetParent
    \/ GetPermset \/ NewPermset_ \/ InitPermset
    \/ DropA \/ DropE \/ DropP

SpecHold == InitHold /\ [][NextHold]_vars

CursorSteps == 7

\* one ACL, constructed from a text or a file
InitCursor ==
    /\ \E t \in Templates : backend = Loaded1(t)
    /\ acls = [a \in ACLIds |-> IF a = 1 THEN Held(1) ELSE NoACL]
    /\ NoViews
    /\ steps = CursorSteps

\* traversals begun and advanced in any order, iterators and entries released
NextCursorShared == Iter \/ IterNext \/ DropA \/ DropE

SpecCursor == InitCursor /\ [][NextCursorShared]_vars

FrameSteps == 5

\* one ACL, constructed from a text or a file; others can be created
InitFrame ==
    /\ \E t \in Templates : backend = Loaded1(t)
    /\ acls = [a \in ACLIds |-> IF a = 1 THEN Held(1) ELSE NoACL]
    /\ NoViews
    /\ steps = FrameSteps

\* ACL creation, traversal, and the operations between two advances
NextFrame ==
    \/ NewACL \/ InitEmpty \/ Iter \/ IterNext
    \/ GetState \/ SetState \/ Str \/ Valid
    \/ NewEntry \/ InitEntry \/ DelEntry \/ DropE \/ ClearErr

SpecFrame == InitFrame /\ [][NextFrame]_vars

(* ------------------------------ claims --------------------------------- *)
\* the entry list of ACL object a, empty when it has no handle
EntryList(a) == IF Live(backend, acls[a].acl) THEN Content(backend, acls[a].acl) ELSE <<>>

TagIdx(c, t) == {i \in 1..Len(c) : c[i].tag = t}
QualsOf(c, t) == {c[i].qual : i \in TagIdx(c, t)}

\* the conditions C1 lists
C1_Conditions(c) ==
    /\ Cardinality(TagIdx(c, ACL_USER_OBJ)) = 1
    /\ Cardinality(TagIdx(c, ACL_GROUP_OBJ)) = 1
    /\ Cardinality(TagIdx(c, ACL_OTHER)) = 1
    /\ Cardinality(TagIdx(c, ACL_MASK)) <= 1
    /\ Cardinality(QualsOf(c, ACL_USER)) = Cardinality(TagIdx(c, ACL_USER))
    /\ Cardinality(QualsOf(c, ACL_GROUP)) = Cardinality(TagIdx(c, ACL_GROUP))
    /\ (TagIdx(c, ACL_USER) \cup TagIdx(c, ACL_GROUP) # {}
            => Cardinality(TagIdx(c, ACL_MASK)) = 1)

\* C1 as stated: after any entry creations, deletions, tag and qualifier
\* changes, valid() returns True exactly when the entry set meets the listed
\* conditions.
C1_AsStated ==
    ret.op = "ACL_valid" => (ret.val <=> C1_Conditions(EntryList(ret.self)))

\* C1 (amended): when every entry has one of the six tag types and every
\* ACL_USER and ACL_GROUP entry has a qualifier, valid() returns True exactly
\* when the entry set meets the listed conditions; an ACL with USER_OBJ,
\* GROUP_OBJ, OTHER and a named USER but no MASK is invalid, and valid once
\* a MASK entry is added.
C1_ValidIffConditions ==
    (ret.op = "ACL_valid" /\ Documented(EntryList(ret.self)))
        => (ret.val <=> C1_Conditions(EntryList(ret.self)))

\* valid() answered True on the ACL loaded without a mask after an entry was
\* created in it and tagged ACL_MASK
C1_Witness ==
    /\ ret.op = "ACL_valid"
    /\ ret.val
    /\ Len(EntryList(ret.self)) = Len(TemplateNoMask) + 1
    /\ Cardinality(TagIdx(EntryList(ret.self), ACL_USER)) = 1
    /\ \E e \in EntryIds :
          /\ Alive(entries, e)
          /\ entries[e].entry = Len(TemplateNoMask) + 1
          /\ backend.rec[entries[e].entry].tag = ACL_MASK

IsPrefix(s, t) == Len(s) <= Len(t) /\ \A i \in 1..Len(s) : s[i] = t[i]

\* C2: a traversal begun on an ACL of N entries yields exactly those N
\* entries, each as an Entry bound to the ACL, and then reports exhaustion;
\* a second traversal, with no mutation in between, yields the same entries
\* in the same order.
C2_TraversalYieldsAll ==
    /\ \A a \in ACLIds :
          (Alive(acls, a) /\ trav[a].on)
              => /\ Live(backend, acls[a].acl)
                 /\ IsPrefix(trav[a].log, backend.ents[acls[a].acl])
                 /\ trav[a].done
                        => /\ trav[a].log = backend.ents[acls[a].acl]
                           /\ trav[a].hasPrev => trav[a].prev = trav[a].log
    /\ (ret.op = "ACL_iternext" /\ ret.rc = 1)
          => /\ Alive(entries, ret.val)
             /\ entries[ret.val].parent_acl = ret.self
             /\ trav[ret.self].on
                    => entries[ret.val].entry = trav[ret.self].log[Len(trav[ret.self].log)]
    /\ (ret.op = "ACL_iternext" /\ ret.rc = 0) => err = "none"

\* a second complete traversal of an ACL of at least three entries
C2_Witness ==
    \E a \in ACLIds :
        /\ Alive(acls, a)
        /\ trav[a].on /\ trav[a].done /\ trav[a].hasPrev
        /\ Len(trav[a].log) >= 3
        /\ ret.op = "ACL_iternext" /\ ret.rc = 0

\* the step is a successful delentry whose Entry refers to a record of the
\* ACL's own entry list
OwnDelete ==
    /\ steps' = steps - 1
    /\ ret'.op = "ACL_delentry"
    /\ err' = "none"
    /\ IndexOf(backend, acls[ret'.self].acl, ret'.rec) # 0

C3_DeleteStep ==
    OwnDelete =>
        LET h == acls[ret'.self].acl
            before == backend.ents[h]
            after == backend'.ents[h]
        IN  /\ acls' = acls
            /\ Len(after) = Len(before) - 1
            /\ after = SelectSeq(before, LAMBDA r : r # ret'.rec)
            /\ \A i \in 1..Len(after) : backend'.rec[after[i]] = backend.rec[after[i]]

C3_FreshTraversal ==
    \A a \in ACLIds :
        (Alive(acls, a) /\ trav[a].on /\ trav[a].done)
            => trav[a].log = backend.ents[acls[a].acl]

\* C3: after DeleteEntry(e) succeeds on an ACL of N entries, e referring to
\* one of them, the ACL holds the other N-1 records, unchanged and in their
\* order, and a traversal begun afterwards yields exactly these.
C3_DeletionVisible == [][C3_DeleteStep]_vars /\ []C3_FreshTraversal

\* a complete traversal of an ACL one of whose loaded entries was deleted
C3_Witness ==
    \E a \in ACLIds :
        /\ Alive(acls, a) /\ Live(backend, acls[a].acl)
        /\ trav[a].on /\ trav[a].done
        /\ Len(trav[a].log) >= 2
        /\ Len(trav[a].log) + 1 = Cardinality({r \in RecIds : backend.rec[r].h = acls[a].acl})

\* the Entry of Permset p exists and refers to an entry of a live handle
Bound(p) ==
    /\ Alive(permsets, p)
    /\ Alive(entries, permsets[p].parent_entry)
    /\ RecLive(backend, entries[permsets[p].parent_entry].entry)

\* Get(right) through Permset p gives the bit of the record of its Entry
Reflects(p) ==
    \A right \in Rights, lib \in BOOLEAN :
        (get_perm(backend, permsets[p].permset, right, lib) # 0)
            <=> right \in backend.rec[entries[permsets[p].parent_entry].entry].perm

\* the last call was a successful one of the kind `op`
Did(op) == ret.op = op /\ err = "none"

ImportOfExport ==
    /\ steps' = steps - 1
    /\ ret'.op = "ACL_set_state"
    /\ err' = "none"
    /\ buf.has /\ buf.valid

\* C5: importing the bytes exported from a valid ACL a, on any ACL, leaves
\* that ACL with the text a had at the export, and changes no other ACL.
C5_ImportStep ==
    ImportOfExport =>
        /\ buf.text.ok
        /\ acl_to_text(backend', acls'[ret'.self].acl) = buf.text
        /\ \A a \in ACLIds \ {ret'.self} :
              /\ acls'[a] = acls[a]
              /\ (Alive(acls, a) /\ Live(backend, acls[a].acl))
                    => /\ Live(backend', acls[a].acl)
                       /\ Content(backend', acls[a].acl) = Content(backend, acls[a].acl)

C5_RoundTrip == [][C5_ImportStep]_vars

\* an ACL that held something else now holds the text of the export, next to
\* another ACL that still has that text
C5_Witness ==
    /\ Did("ACL_set_state") /\ ret.imported
    /\ buf.has /\ buf.valid
    /\ Len(buf.text.text) >= 3
    /\ ret.old # NULL /\ ret.new # ret.old
    /\ acls[ret.self].acl = ret.new
    /\ \E a \in ACLIds \ {ret.self} :
          /\ Alive(acls, a)
          /\ acl_to_text(backend, acls[a].acl) = buf.text

\* the step is a call of the handler `op`
Calls(op) == steps' = steps - 1 /\ ret'.op = op

\* C6: every ACL object has at most one live backend handle in every state,
\* and ACL_init and __setstate__ release the previous handle before they
\* acquire the new one, on every path.
C6_AtMostOneHandle ==
    /\ \A a \in ACLIds : Alive(acls, a) => Cardinality(LiveOwned(backend, a)) <= 1
    /\ ret.op \in {"ACL_init", "ACL_set_state"} => ret.peak <= 1

\* C7: ACL_init with more than one of the five sources fails with
\* InvalidArgument (ValueError), acquires no handle, and neither releases nor
\* replaces the handle the ACL has.
C7_InitStep ==
    (Calls("ACL_init") /\ ret'.nsrc > 1)
        => /\ err' \in InvalidArgument
           /\ backend' = backend
           /\ acls' = acls

C7_TooManySources == [][C7_InitStep]_vars

\* a call with several sources on an ACL that has a live handle
C7_Witness ==
    /\ ret.op = "ACL_init" /\ ret.nsrc > 1
    /\ err = "ValueError"
    /\ Alive(acls, ret.self)
    /\ Live(backend, acls[ret.self].acl)
    /\ Len(backend.ents[acls[ret.self].acl]) >= 3

\* the step is delentry on one ACL with an Entry bound to another ACL
ForeignDelete ==
    /\ Calls("ACL_delentry")
    /\ ret'.parent # NULL
    /\ ret'.parent # ret'.self

\* C8: delentry with an Entry bound to a different ACL fails with
\* InvalidArgument (ValueError or TypeError) and changes the entries of
\* neither ACL.
C8_ForeignStep ==
    ForeignDelete
        => /\ err' \in InvalidArgument
           /\ backend' = backend

C8_ForeignEntryRejected == [][C8_ForeignStep]_vars

\* the step gives up a reference to an ACL, Entry or Permset
DropStep == Calls("drop")

\* C9: the error in flight when an ACL, Entry or Permset is destroyed is the
\* one in flight afterwards, whether or not acl_free fails; a failed release
\* sets no error either.
C9_DropStep == DropStep => err' = err

C9_ErrorSurvivesDealloc == [][C9_DropStep]_vars

\* the last Permset went while an error was in flight, its Entry and the ACL
\* went with it, and the handle could not be freed
C9_Witness ==
    /\ ret.op = "drop" /\ ret.kind = "Permset"
    /\ ret.had # "none" /\ err = ret.had
    /\ ret.dead[1] # {} /\ ret.dead[2] # {} /\ ret.dead[3] # {}
    /\ ret.freeFailed

\* C10: setting the tag type of an entry of a live ACL to a value that is none
\* of the seven tag types fails with InvalidArgument (TypeError or
\* ValueError), not with BackendError, and leaves the entry as it was.
C10_TagStep ==
    (Calls("Entry_set_tag_type") /\ RecLive(backend, ret'.rec) /\ ret'.arg \notin KnownTags)
        => /\ err' \in InvalidArgument
           /\ err' \notin BackendError
           /\ backend' = backend

C10_UnknownTagRejected == [][C10_TagStep]_vars

EntryAccessors ==
    {"Entry_get_tag_type", "Entry_get_qualifier", "Entry_set_tag_type",
     "Entry_set_qualifier", "Entry_get_permset", "Entry_set_permset",
     "Entry_get_parent", "Entry_copy", "Entry_str"}

\* the step is an accessor call, with an argument of the right type, on an
\* Entry that has no record
BlankEntryCall ==
    /\ steps' # steps
    /\ ret'.op \in EntryAccessors
    /\ Alive(entries, ret'.self)
    /\ entries[ret'.self].entry = NULL
    /\ ret'.op = "Entry_set_tag_type" => ret'.isInt
    /\ ret'.op = "Entry_set_permset" => ret'.called

\* C11: every accessor called on an Entry that holds no record (made by
\* Entry_new, never initialised) fails with UninitializedState
\* (AttributeError): the tag-type and qualifier getters and setters, the
\* permset getter and setter, parent, copy and str.
C11_BlankStep == BlankEntryCall => err' \in UninitializedState

C11_BlankEntryRejected == [][C11_BlankStep]_vars

\* the drop step destroys no object that a surviving view is bound to
C12_DropStep ==
    Calls("drop") =>
        /\ \A e \in EntryIds :
              (Alive(entries', e) /\ entries'[e].parent_acl # NULL)
                  => /\ entries'[e].parent_acl \notin ret'.dead[3]
                     /\ Live(backend, acls[entries'[e].parent_acl].acl)
                            => Live(backend', acls[entries'[e].parent_acl].acl)
        /\ \A p \in PermsetIds :
              (Alive(permsets', p) /\ permsets'[p].parent_entry # NULL)
                  => permsets'[p].parent_entry \notin ret'.dead[2]

\* every view's parent exists, and an object exists only as long as the
\* caller or a view refers to it
C12_Held ==
    /\ \A e \in EntryIds :
          (Alive(entries, e) /\ entries[e].parent_acl # NULL)
              => Alive(acls, entries[e].parent_acl)
    /\ \A p \in PermsetIds :
          (Alive(permsets, p) /\ permsets[p].parent_entry # NULL)
              => Alive(entries, permsets[p].parent_entry)
    /\ \A a \in ACLIds : Alive(acls, a) => (acls[a].refs > 0 \/ ChildrenE(a) # {})
    /\ \A e \in EntryIds : Alive(entries, e) => (entries[e].refs > 0 \/ ChildrenP(e) # {})

C13_IterStep ==
    Calls("ACL_iter")
        => /\ acls'[ret'.self].entry_id = ACL_FIRST_ENTRY
           /\ backend' = backend
           /\ err' = "none"

\* an advance with the cursor at the start yields the first entry
C13_AdvanceStep ==
    (Calls("ACL_iternext")
        /\ acls[ret'.self].entry_id = ACL_FIRST_ENTRY
        /\ Live(backend, acls[ret'.self].acl)
        /\ Len(backend.ents[acls[ret'.self].acl]) > 0)
        => /\ ret'.rc = 1
           /\ entries'[ret'.val].entry = backend.ents[acls[ret'.self].acl][1]

\* what is yielded after the latest beginning, through whichever traversal,
\* is one pass over the entries
C13_OnePass ==
    \A a \in ACLIds :
        (Alive(acls, a) /\ trav[a].on)
            => /\ IsPrefix(trav[a].log, backend.ents[acls[a].acl])
               /\ trav[a].done => trav[a].log = backend.ents[acls[a].acl]

\* C13: an ACL has one cursor shared by all its traversals: beginning a
\* second traversal while the first has yielded k of N entries puts the
\* cursor back to the start, the next advance through either yields the first
\* entry, and the advances after it make one pass over the N entries, not
\* one pass each.
C13_SharedCursor == [][C13_IterStep /\ C13_AdvanceStep]_vars /\ []C13_OnePass

\* a second traversal was begun after the first had yielded some but not all
\* entries, and the advance after it yielded the first entry again
C13_Witness ==
    /\ ret.op = "ACL_iternext" /\ ret.rc = 1
    /\ Alive(acls, ret.self) /\ Live(backend, acls[ret.self].acl)
    /\ trav[ret.self].on
    /\ trav[ret.self].cut >= 1
    /\ trav[ret.self].cut < Len(backend.ents[acls[ret.self].acl])
    /\ trav[ret.self].log = <<backend.ents[acls[ret.self].acl][1]>>

\* the handlers, other than deallocation, that free a handle or a buffer and
\* record whether that failed
Releasing == {"ACL_init", "ACL_set_state", "Entry_get_qualifier", "Entry_str"}

\* C14: a failure of a library call in an operation other than destruction
\* reaches the caller as BackendError (IOError) and is never ignored,
\* including the release of the previous handle in a repeated ACL_init and
\* the release of the temporary buffers of the text conversions.
C14_FailuresSurface ==
    (ret.op \in Releasing /\ ret.freeFailed) => err \in BackendError

\* the step is a successful call of `op` through a Permset of a live entry
PermsetCall(op) ==
    /\ Calls(op)
    /\ err' = "none"
    /\ Bound(ret'.self)

\* nothing but the permission bits of record r differs after the step
OnlyBitsOf(r) ==
    /\ backend'.rec[r].tag = backend.rec[r].tag
    /\ backend'.rec[r].qual = backend.rec[r].qual
    /\ \A r2 \in RecIds \ {r} : backend'.rec[r2] = backend.rec[r2]
    /\ backend'.ents = backend.ents
    /\ backend'.hs = backend.hs
    /\ <<acls', entries', permsets'>> = <<acls, entries, permsets>>

C15_SetStep ==
    PermsetCall("Permset_set_right") =>
        LET r == permsets[ret'.self].permset
        IN  /\ \A lib \in BOOLEAN :
                  (get_perm(backend', r, ret'.arg, lib) # 0) <=> (ret'.on # 0)
            /\ \A right \in Rights \ {ret'.arg}, lib \in BOOLEAN :
                  get_perm(backend', r, right, lib) = get_perm(backend, r, right, lib)
            /\ OnlyBitsOf(r)

C15_ClearStep ==
    PermsetCall("Permset_clear") =>
        LET r == permsets[ret'.self].permset
        IN  /\ \A right \in Rights, lib \in BOOLEAN : get_perm(backend', r, right, lib) = 0
            /\ OnlyBitsOf(r)

\* C15: Set(right, value) makes Get(right) equal to value and leaves the
\* other two rights as they were, Clear() makes all three false, and neither
\* changes the tag type or qualifier of the Entry nor any other entry.
C15_SetClearFrame == [][C15_SetStep /\ C15_ClearStep]_vars

\* WRITE was taken from an entry that keeps READ and EXECUTE
C15_Witness ==
    /\ Did("Permset_set_right") /\ ret.on = 0 /\ ret.arg = ACL_WRITE
    /\ Bound(ret.self)
    /\ backend.rec[permsets[ret.self].permset].perm = {ACL_READ, ACL_EXECUTE}
    /\ backend.rec[permsets[ret.self].permset].tag = ACL_USER_OBJ
    /\ \E r \in RecIds \ {permsets[ret.self].permset} :
          RecLive(backend, r) /\ backend.rec[r].perm = {ACL_READ, ACL_EXECUTE}

\* the handlers said to leave the cursor alone
CursorKeepers ==
    {"ACL_set_state", "ACL_init", "ACL_delentry", "Entry_init", "ACL_valid",
     "ACL_get_state", "ACL_str"}

\* where the cursor is put, moved and kept
C17_CursorStep ==
    /\ (steps' # steps /\ ret'.op \in CursorKeepers)
          => \A a \in ACLIds : acls'[a].entry_id = acls[a].entry_id
    /\ Calls("ACL_iternext")
          => /\ ret'.at = acls[ret'.self].entry_id
             /\ acls'[ret'.self].entry_id = ACL_NEXT_ENTRY
    /\ Calls("ACL_new") => acls'[ret'.self].entry_id = ACL_FIRST_ENTRY
    /\ Calls("ACL_iter") => acls'[ret'.self].entry_id = ACL_FIRST_ENTRY
    /\ \A a \in ACLIds :
          (Alive(acls', a) /\ acls'[a].entry_id = ACL_FIRST_ENTRY
              /\ ~(Alive(acls, a) /\ acls[a].entry_id = ACL_FIRST_ENTRY))
              => (ret'.op \in {"ACL_new", "ACL_iter"} /\ ret'.self = a)

\* the step is an advance made right after a successful __setstate__ on the
\* same ACL, whose cursor was at next and whose new handle has entries
AdvanceAfterImport ==
    /\ Calls("ACL_iternext")
    /\ ret.op = "ACL_set_state" /\ err = "none" /\ ret.imported
    /\ ret.self = ret'.self
    /\ acls[ret.self].acl = ret.new
    /\ acls[ret.self].entry_id = ACL_NEXT_ENTRY
    /\ Len(backend.ents[ret.new]) > 0

YieldsFirst ==
    /\ ret'.rc = 1
    /\ entries'[ret'.val].entry = backend.ents[acls[ret'.self].acl][1]

\* C17 as stated: the cursor is at start only on a new ACL or right after a
\* traversal begins, every advance leaves it at next, the other operations
\* leave it unchanged, and so an advance after ImportState continues from
\* next on the new handle rather than from its first entry.
C17_AsStated ==
    [][C17_CursorStep /\ (AdvanceAfterImport => ~YieldsFirst)]_vars

\* C17 (amended): the cursor is at start only on a new ACL or right after a
\* traversal begins, every advance leaves it at next whatever its outcome,
\* and the other operations leave it unchanged; an advance after ImportState
\* is made with the cursor at next, and yields the first entry of the new
\* handle, whose own position is at its beginning.
C17_CursorFrame ==
    [][C17_CursorStep
       /\ (AdvanceAfterImport => (ret'.at = ACL_NEXT_ENTRY /\ YieldsFirst))]_vars

\* an advance with the cursor at next yielded the first entry of a handle
\* that __setstate__ put in place of the one the ACL was constructed with
C17_Witness ==
    /\ ret.op = "ACL_iternext" /\ ret.rc = 1 /\ ret.at = ACL_NEXT_ENTRY
    /\ ret.self = 1
    /\ acls[1].acl # 1 /\ Live(backend, acls[1].acl)
    /\ buf.has
    /\ entries[ret.val].entry = backend.ents[acls[1].acl][1]
    /\ backend.pos[acls[1].acl] = 1

\* C16: no Entry object refers to a record of a handle that has been
\* released; after __setstate__ or a repeated ACL_init replaced the handle
\* of the ACL, the Entries obtained before (and their Permsets) are not left
\* bound to records of the released handle.
C16_NoStaleViews ==
    /\ \A e \in EntryIds :
          (Alive(entries, e) /\ entries[e].entry # NULL)
              => backend.hs[backend.rec[entries[e].entry].h] # "released"
    /\ \A p \in PermsetIds :
          (Alive(permsets, p) /\ permsets[p].permset # NULL)
              => backend.hs[backend.rec[permsets[p].permset].h] # "released"

====
